---- MODULE Spec2Model ----
(***************************************************************************)
(* Houseboat booking price estimators.                                     *)
(*                                                                         *)
(*   rulebased_pricing_module.py  : calculate_price_with_rules             *)
(*   houseboat_price_predictor.py : module-level load/encode and           *)
(*                                  predict_dynamic_price                  *)
(*                                                                         *)
(* Money is exact: the floats of the source are modelled by the rational   *)
(* numbers they approximate, kept as integer numerators over a fixed       *)
(* denominator, and round(x, 2) by round-half-to-even on that rational.    *)
(***************************************************************************)
EXTENDS Integers, Sequences, FiniteSets

VARIABLES
    request,    \* rule-based: arguments of the last call (or NoRequest)
    result,     \* rule-based: what the last call returned
    message,    \* rule-based: the diagnostic the last call printed
    csv,        \* comparable: the rows of the dataset file
    df,         \* comparable: the module-level frame, filtered and encoded
    label_encoders, \* comparable: per categorical column, its sorted classes
    query,      \* comparable: what the last call read from its prompts
    outcome,    \* comparable: what the last call raised or printed
    earlier     \* comparable: some call made before the last one

rule_vars == <<request, result, message>>
comparable_vars == <<csv, df, label_encoders, query, outcome, earlier>>
vars == <<request, result, message, csv, df, label_encoders, query, outcome, earlier>>

(***************************************************************************)
(* Bounds of the rule-based inputs.                                        *)
(***************************************************************************)
MaxNights == 2

(***************************************************************************)
(* Bound of the dataset: the most rows the file holds.                     *)
(***************************************************************************)
MaxRows == 3

(***************************************************************************)
(* datetime.date: the proleptic Gregorian calendar, as the standard        *)
(* library computes it.                                                    *)
(***************************************************************************)
Abs(x) == IF x < 0 THEN 0 - x ELSE x

IsLeap(y) == (y % 4 = 0) /\ ((y % 100 # 0) \/ (y % 400 = 0))

DaysInMonth(y, m) ==
    IF m = 2 THEN (IF IsLeap(y) THEN 29 ELSE 28)
    ELSE IF m \in {4, 6, 9, 11} THEN 30 ELSE 31

DaysBeforeYear(y) ==
    (y - 1) * 365 + ((y - 1) \div 4) - ((y - 1) \div 100) + ((y - 1) \div 400)

RECURSIVE DaysBeforeMonth(_, _)
DaysBeforeMonth(y, m) ==
    IF m = 1 THEN 0 ELSE DaysBeforeMonth(y, m - 1) + DaysInMonth(y, m - 1)

\* date.toordinal(): 0001-01-01 is day 1
ToOrdinal(dt) == DaysBeforeYear(dt.y) + DaysBeforeMonth(dt.y, dt.m) + dt.d

\* date.weekday(): Monday is 0, Sunday is 6
Weekday(dt) == (ToOrdinal(dt) + 6) % 7

\* current_date += datetime.timedelta(days=1)
NextDay(dt) ==
    IF dt.d < DaysInMonth(dt.y, dt.m) THEN [y |-> dt.y, m |-> dt.m, d |-> dt.d + 1]
    ELSE IF dt.m < 12 THEN [y |-> dt.y, m |-> dt.m + 1, d |-> 1]
    ELSE [y |-> dt.y + 1, m |-> 1, d |-> 1]

(***************************************************************************)
(* Date strings.  A string is either empty or of the shape 'YYYY-MM-DD'    *)
(* with the three numbers it spells; the numbers need not name a day of    *)
(* the calendar.                                                           *)
(***************************************************************************)
IsoStr(y, m, d) == [form |-> "iso", y |-> y, m |-> m, d |-> d]
EmptyStr == [form |-> "empty", y |-> 0, m |-> 0, d |-> 0]

\* datetime.date.fromisoformat raises ValueError unless this holds
ParsesAsDate(s) ==
    /\ s.form = "iso"
    /\ s.y \in 1..9999
    /\ s.m \in 1..12
    /\ s.d \in 1..DaysInMonth(s.y, s.m)

fromisoformat(s) == [y |-> s.y, m |-> s.m, d |-> s.d]

(***************************************************************************)
(* Prices.  A base price is num/den; a fee is a whole number of percent.   *)
(* The two multipliers are kept in twentieths (1.20 = 24/20, 0.85 = 17/20, *)
(* 1.15 = 23/20, 1.0 = 20/20), so a nightly price is a number of           *)
(* 1/(400*den) and the price with its fee a number of 1/(40000*den).       *)
(***************************************************************************)
Price(num, den) == [num |-> num, den |-> den]

\* Rule 1: seasonality, in twentieths
season_multiplier(month) ==
    IF month \in {12, 1, 2} THEN 24
    ELSE IF month \in {6, 7, 8} THEN 17
    ELSE 20

\* Rule 2 with Saturday (5) and Sunday (6) for the weekend
weekend_multiplier_sat_sun(weekday) == IF weekday \in {5, 6} THEN 23 ELSE 20

\* Rule 2: weekends (the night booked is Friday (4) or Saturday (5)), in twentieths
weekend_multiplier(weekday) == IF weekday \in {4, 5} THEN 23 ELSE 20

\* nightly_price *= season_multiplier * weekend_multiplier, in 1/(400*den)
nightly_price(base, current_date) ==
    base.num * (season_multiplier(current_date.m) * weekend_multiplier(Weekday(current_date)))

\* for _ in range(num_nights): total_rule_based_price += nightly_price
RECURSIVE total_rule_based_price(_, _, _, _)
total_rule_based_price(base, current_date, nights_left, total) ==
    IF nights_left <= 0 THEN total
    ELSE total_rule_based_price(base, NextDay(current_date), nights_left - 1,
                                total + nightly_price(base, current_date))

\* Rule 3 with the fee taken off instead of added
final_display_price_discounted(total, platform_fee_percent) ==
    total * (100 - platform_fee_percent)

\* Rule 3: total * (1 + fee / 100.0), in 1/(40000*den)
final_display_price(total, platform_fee_percent) == total * (100 + platform_fee_percent)

\* round(x, 2) mistaken for cutting the digits off
Round2_truncating(n, d) == n \div d

\* round(x, 2) of x = n / (100 * d): the nearest number of cents, ties to even
Round2(n, d) ==
    LET q == n \div d
        r == n - q * d
    IN  IF 2 * r < d THEN q
        ELSE IF 2 * r > d THEN q + 1
        ELSE IF q % 2 = 0 THEN q ELSE q + 1

\* the diagnostics the function prints
MissingInputs == "Error: Missing required price or date inputs."
InvalidDateFormat == "Error: Invalid date format. Please use YYYY-MM-DD."
CheckOutNotAfter == "Error: Check-out date must be after check-in date."

None == [returned |-> "None", cents |-> 0]
Float(cents) == [returned |-> "float", cents |-> cents]

\* all([base_price_per_night, check_in_date_str, check_out_date_str])
AllTruthy(base, check_in_date_str, check_out_date_str) ==
    /\ base.num # 0
    /\ check_in_date_str.form # "empty"
    /\ check_out_date_str.form # "empty"

\* if check_out_date <= check_in_date, mistaken for <
not_after_strict(check_out_date, check_in_date) ==
    ToOrdinal(check_out_date) < ToOrdinal(check_in_date)

\* if check_out_date <= check_in_date
not_after(check_out_date, check_in_date) ==
    ToOrdinal(check_out_date) <= ToOrdinal(check_in_date)

\* The whole function: what it returns and what it prints.
calculate_price_with_rules(base, check_in_date_str, check_out_date_str, fee) ==
    IF ~AllTruthy(base, check_in_date_str, check_out_date_str)
    THEN [ret |-> None, msg |-> MissingInputs]
    ELSE IF ~ParsesAsDate(check_in_date_str) \/ ~ParsesAsDate(check_out_date_str)
    THEN [ret |-> None, msg |-> InvalidDateFormat]
    ELSE
      LET check_in_date == fromisoformat(check_in_date_str)
          check_out_date == fromisoformat(check_out_date_str)
      IN  IF not_after(check_out_date, check_in_date)
          THEN [ret |-> None, msg |-> CheckOutNotAfter]
          ELSE
            LET num_nights == ToOrdinal(check_out_date) - ToOrdinal(check_in_date)
                total == total_rule_based_price(base, check_in_date, num_nights, 0)
            IN  [ret |-> Float(Round2(final_display_price(total, fee), 400 * base.den)),
                 msg |-> ""]

(***************************************************************************)
(* The inputs the calls are drawn from.                                    *)
(***************************************************************************)
RECURSIVE AddDays(_, _)
AddDays(dt, k) == IF k = 0 THEN dt ELSE AddDays(NextDay(dt), k - 1)

\* the days before the first nights tried: a peak-season Friday, an off-season
\* Wednesday, the Wednesday before a leap day and a change of season, and the
\* Friday before the off-season starts
DaysBefore ==
    { [y |-> 2024, m |-> 12, d |-> 19],
      [y |-> 2024, m |-> 7, d |-> 9],
      [y |-> 2024, m |-> 2, d |-> 27],
      [y |-> 2024, m |-> 5, d |-> 30] }

StrOf(dt) == IsoStr(dt.y, dt.m, dt.d)

\* the empty string and a well-formed string that names no day
BadStrs == { EmptyStr, IsoStr(2024, 2, 30) }

\* check-in the day after a, check-out from the day before that check-in up to
\* MaxNights nights after it; and the pairs with a string that is no date
DatePairs ==
    { <<StrOf(NextDay(a)), StrOf(AddDays(a, k))>> : a \in DaysBefore, k \in 0..(MaxNights + 1) }
    \cup { <<StrOf(NextDay(a)), s>> : a \in DaysBefore, s \in BadStrs }
    \cup { <<s, t>> : s \in BadStrs, t \in BadStrs \cup { StrOf([y |-> 2024, m |-> 12, d |-> 22]) } }

\* -7000, 0, 0.001, 0.002, 0.01, 7000 (no price computed from these falls on a
\* rounding tie, where a binary float and the exact number can round apart)
Bases == { Price(-7000, 1), Price(0, 1), Price(1, 1000), Price(2, 1000),
           Price(10, 1000), Price(7000, 1) }

Fees == { -100, 0, 10 }

NoRequest == [base |-> Price(0, 1), check_in |-> EmptyStr, check_out |-> EmptyStr,
              fee |-> 0, called |-> FALSE]

RuleInit ==
    /\ request = NoRequest
    /\ result = None
    /\ message = ""

\* one call of calculate_price_with_rules
Calculate ==
    \E base \in Bases, dates \in DatePairs, fee \in Fees :
        LET out == calculate_price_with_rules(base, dates[1], dates[2], fee)
        IN  /\ request' = [base |-> base, check_in |-> dates[1], check_out |-> dates[2],
                           fee |-> fee, called |-> TRUE]
            /\ result' = out.ret
            /\ message' = out.msg

(***************************************************************************)
(* houseboat_price_predictor.py                                            *)
(*                                                                         *)
(* Prices of the dataset are whole rupees.  A median is kept doubled (the  *)
(* mean of two middle values may end in .5), a predicted price in 1/400 of *)
(* a rupee (median/2 * multiplier/100, halved once more by the mean of     *)
(* predicted and actual).                                                  *)
(***************************************************************************)
Row(capacity, bedrooms, houseboat_type, season, duration, base_price, final_price) ==
    [capacity |-> capacity, bedrooms |-> bedrooms, houseboat_type |-> houseboat_type,
     season |-> season, duration |-> duration, base_price |-> base_price,
     final_price |-> final_price]

\* the rows a dataset file is made of
RowPool ==
    << Row(2, 1, "Standard", "Peak", 1, 5000, 5000),
       Row(2, 1, "Standard", "Peak", 1, 5000, 4000),
       Row(4, 2, "Luxury", "Off-Season", 1, 8000, 7000),
       Row(2, 1, "Standard", "Peak", 2, 1000, 1000),
       Row(2, 2, "Standard", "Off-Season", 1, 3000, 9000),
       Row(4, 1, "Luxury", "Peak", 1, 4000, 6000) >>

\* the files: up to MaxRows rows of the pool, repeats allowed, in pool order
\* (nothing the program computes depends on the order of the rows)
Files ==
    UNION { { [i \in 1..n |-> RowPool[ix[i]]] :
                ix \in { f \in [1..n -> 1..Len(RowPool)] :
                            \A i \in 1..n, j \in 1..n : i < j => f[i] <= f[j] } } :
            n \in 0..MaxRows }

\* the columns of the file
Columns == { "capacity", "bedrooms", "houseboat_type", "season", "duration",
             "base_price", "final_price" }

IsOneDay(r) == r.duration = 1

\* the filter left out: bookings of any duration stay in the frame
all_bookings(rows) == rows

\* if 'duration' in df.columns: df = df[df["duration"] == 1]
one_day_bookings(rows) ==
    IF "duration" \in Columns THEN SelectSeq(rows, IsOneDay) ELSE rows

\* the labels of the two categorical columns, in the order np.unique sorts them
SortedLabels == << "Luxury", "Off-Season", "Peak", "Standard" >>

Range(seq) == { seq[i] : i \in 1..Len(seq) }

\* LabelEncoder.fit: classes_ are the distinct labels, sorted
fit(labels) ==
    LET Present(l) == l \in labels
    IN  SelectSeq(SortedLabels, Present)

\* LabelEncoder.transform giving an unseen label the code 0
transform_with_default(classes, label) ==
    IF label \in Range(classes)
    THEN [unseen |-> FALSE, code |-> (CHOOSE i \in 1..Len(classes) : classes[i] = label) - 1]
    ELSE [unseen |-> FALSE, code |-> 0]

\* LabelEncoder.transform of one label: its position in classes_, from 0;
\* a label that is not in classes_ raises ValueError
transform(classes, label) ==
    IF label \in Range(classes)
    THEN [unseen |-> FALSE, code |-> (CHOOSE i \in 1..Len(classes) : classes[i] = label) - 1]
    ELSE [unseen |-> TRUE, code |-> 0]

\* for col in [...]: le = LabelEncoder(); df[col] = le.fit_transform(df[col])
build_encoders(rows) ==
    [houseboat_type |-> fit({ r.houseboat_type : r \in Range(rows) }),
     season |-> fit({ r.season : r \in Range(rows) })]

encode_columns(rows, encoders) ==
    [i \in 1..Len(rows) |->
        [rows[i] EXCEPT !.houseboat_type = transform(encoders.houseboat_type, @).code,
                        !.season = transform(encoders.season, @).code]]

\* Series.median() / np.median, doubled; only of a non-empty column
RECURSIVE Insert(_, _)
Insert(sorted, x) ==
    IF sorted = <<>> THEN <<x>>
    ELSE IF x <= Head(sorted) THEN <<x>> \o sorted
    ELSE <<Head(sorted)>> \o Insert(Tail(sorted), x)

RECURSIVE Sorted(_)
Sorted(seq) == IF seq = <<>> THEN <<>> ELSE Insert(Sorted(Tail(seq)), Head(seq))

median2(column) ==
    LET s == Sorted(column)
        n == Len(s)
    IN  IF n % 2 = 1 THEN 2 * s[(n + 1) \div 2]
        ELSE s[n \div 2] + s[(n \div 2) + 1]

BasePrices(rows) == [i \in 1..Len(rows) |-> rows[i].base_price]
FinalPrices(rows) == [i \in 1..Len(rows) |-> rows[i].final_price]

\* a float: NaN, or a number of 1/400 rupee
NaN == [nan |-> TRUE, n |-> 0]
Num(n) == [nan |-> FALSE, n |-> n]

\* column.median(), in 1/400 rupee; NaN for an empty column
median(column) == IF column = <<>> THEN NaN ELSE Num(200 * median2(column))

\* "Standard" if houseboat_type == "S" else "Luxury"
houseboat_type_of(answer) == IF answer = "S" THEN "Standard" ELSE "Luxury"

\* "Peak" if season == "P" else "Off-Season"
season_of(answer) == IF answer = "P" THEN "Peak" ELSE "Off-Season"

\* 1.2 if season == "Peak" else 0.85, in hundredths
seasonal_multiplier(season) == IF season = "Peak" THEN 120 ELSE 85

\* df[(capacity == ..) & (bedrooms == ..) & (houseboat_type == ..) & (season == ..)]
similar_boats(frame, capacity, bedrooms, houseboat_type_encoded, season_encoded) ==
    LET Matches(r) ==
            /\ r.capacity = capacity
            /\ r.bedrooms = bedrooms
            /\ r.houseboat_type = houseboat_type_encoded
            /\ r.season = season_encoded
    IN  SelectSeq(frame, Matches)

\* price_diff >= (0.2 * median_actual_price)
differs_at_least(predicted_price, median_actual_price) ==
    5 * Abs(predicted_price - median_actual_price) >= median_actual_price

\* price_diff > (0.2 * median_actual_price)
differs_too_much(predicted_price, median_actual_price) ==
    5 * Abs(predicted_price - median_actual_price) > median_actual_price

\* the median of the similar boats with no global median behind it
base_price_without_fallback(frame, similar) == median(BasePrices(similar))

\* base_price = similar_boats["base_price"].median()
\* if pd.isna(base_price): base_price = df["base_price"].median()
base_price_of(frame, similar) ==
    LET own == median(BasePrices(similar))
    IN  IF own.nan THEN median(BasePrices(frame)) ELSE own

\* from the matching rows on: the price and whether it was adjusted
price_from(frame, similar, season) ==
    LET base_price == base_price_of(frame, similar)
        predicted == IF base_price.nan THEN NaN
                     ELSE Num((base_price.n * seasonal_multiplier(season)) \div 100)
        actual_prices == FinalPrices(similar)
    IN  IF Len(actual_prices) > 0 /\ ~predicted.nan
        THEN LET median_actual_price == median(actual_prices).n
             IN  IF differs_too_much(predicted.n, median_actual_price)
                 THEN [price |-> Num((predicted.n + median_actual_price) \div 2),
                       adjusted |-> TRUE]
                 ELSE [price |-> predicted, adjusted |-> FALSE]
        ELSE [price |-> predicted, adjusted |-> FALSE]

\* the one exception the function lets out: LabelEncoder.transform's
UnseenLabels == "ValueError: y contains previously unseen labels"

NoOutcome == [raised |-> "", selected |-> FALSE, adjusted |-> FALSE,
              printed |-> FALSE, price |-> NaN, cents |-> 0]

\* the whole of predict_dynamic_price on a frame and its encoders
predict_dynamic_price(frame, encoders, q) ==
    LET houseboat_type == houseboat_type_of(q.houseboat_type)
        season == season_of(q.season)
        houseboat_type_encoded == transform(encoders.houseboat_type, houseboat_type)
        season_encoded == transform(encoders.season, season)
    IN  IF houseboat_type_encoded.unseen \/ season_encoded.unseen
        THEN [NoOutcome EXCEPT !.raised = UnseenLabels]
        ELSE
          LET similar == similar_boats(frame, q.capacity, q.bedrooms,
                             houseboat_type_encoded.code, season_encoded.code)
              out == price_from(frame, similar, season)
          IN  [raised |-> "", selected |-> TRUE, adjusted |-> out.adjusted,
               printed |-> TRUE, price |-> out.price,
               cents |-> IF out.price.nan THEN 0 ELSE Round2(out.price.n, 4)]

\* what the prompts can be answered with
Queries ==
    [capacity : {2, 4}, bedrooms : {1, 2}, houseboat_type : {"S", "L"}, season : {"P", "O"}]

NoQuery == [capacity |-> 0, bedrooms |-> 0, houseboat_type |-> "", season |-> ""]
NoCall == [asked |-> FALSE, query |-> NoQuery, outcome |-> NoOutcome]

\* lines 6-18: the file is read, filtered and encoded once
ComparableInit ==
    /\ csv \in Files
    /\ label_encoders = build_encoders(one_day_bookings(csv))
    /\ df = encode_columns(one_day_bookings(csv), label_encoders)
    /\ query = NoQuery
    /\ outcome = NoOutcome
    /\ earlier = NoCall

\* a call that keeps the matching rows as the module's frame
Predict_in_place ==
    \E q \in Queries :
        /\ query' = q
        /\ outcome' = predict_dynamic_price(df, label_encoders, q)
        /\ earlier' \in { earlier, [asked |-> query # NoQuery, query |-> query, outcome |-> outcome] }
        /\ df' = similar_boats(df, q.capacity, q.bedrooms,
                      transform(label_encoders.houseboat_type, houseboat_type_of(q.houseboat_type)).code,
                      transform(label_encoders.season, season_of(q.season)).code)
        /\ UNCHANGED <<csv, label_encoders>>

\* one call of predict_dynamic_price
Predict ==
    \E q \in Queries :
        /\ query' = q
        /\ outcome' = predict_dynamic_price(df, label_encoders, q)
        /\ earlier' \in { earlier, [asked |-> query # NoQuery, query |-> query, outcome |-> outcome] }
        /\ UNCHANGED <<csv, df, label_encoders>>

(***************************************************************************)
(* The two programs, each on its own.                                      *)
(***************************************************************************)
Init ==
    /\ RuleInit
    /\ csv = <<>>
    /\ label_encoders = build_encoders(<<>>)
    /\ df = <<>>
    /\ query = NoQuery
    /\ outcome = NoOutcome
    /\ earlier = NoCall

Next == Calculate /\ UNCHANGED comparable_vars

Spec == Init /\ [][Next]_vars

InitComparable == ComparableInit /\ RuleInit

NextComparable == Predict /\ UNCHANGED rule_vars

SpecComparable == InitComparable /\ [][NextComparable]_vars

(***************************************************************************)
(* Properties of calculate_price_with_rules, checked under Spec.           *)
(***************************************************************************)
ParsedDates(r) == ParsesAsDate(r.check_in) /\ ParsesAsDate(r.check_out)

Nights(r) == ToOrdinal(fromisoformat(r.check_out)) - ToOrdinal(fromisoformat(r.check_in))

\* a request the specification calls valid, whatever its fee
ValidStay(r) == r.called /\ r.base.num > 0 /\ ParsedDates(r) /\ Nights(r) > 0

Returned == request.called /\ result.returned = "float"

\* C1: a request whose base price is zero or negative is rejected, whatever
\* its dates and fee: no price is returned and an error is reported.  (Any of
\* the function's diagnostics is taken for the error, so that a negative base
\* price turned away for its dates does not count against the claim.)
C1_NonPositiveBaseRejected ==
    (request.called /\ request.base.num <= 0) =>
        (result = None /\ message \in {MissingInputs, InvalidDateFormat, CheckOutNotAfter})

\* C2 as stated: whenever check-out is equal to or earlier than check-in, the
\* call fails with the range error and returns no price.
C2_RangeErrorAlways ==
    (request.called /\ ParsedDates(request) /\ Nights(request) <= 0) =>
        (result = None /\ message = CheckOutNotAfter)

\* C2 amended: whenever check-out is equal to or earlier than check-in, no
\* price is returned; the error is the range error when the base price is not
\* zero, and the missing-input error when it is zero.
C2_NoPriceWithoutNights ==
    (request.called /\ ParsedDates(request) /\ Nights(request) <= 0) =>
        /\ result = None
        /\ request.base.num # 0 => message = CheckOutNotAfter
        /\ request.base.num = 0 => message = MissingInputs

C2_ZeroNightsRejected ==
    /\ request.called /\ ParsedDates(request) /\ Nights(request) = 0
    /\ request.base.num # 0
    /\ result = None /\ message = CheckOutNotAfter

\* The price formula as the specification words it, by the day number: the
\* multipliers in hundredths, Friday found by counting from 2024-12-20.
SpecSeason(month) ==
    IF month \in {12, 1, 2} THEN 120 ELSE IF month \in {6, 7, 8} THEN 85 ELSE 100

SpecIsFridayOrSaturday(o) ==
    (o - ToOrdinal([y |-> 2024, m |-> 12, d |-> 20])) % 7 \in {0, 1}

SpecWeekend(o) == IF SpecIsFridayOrSaturday(o) THEN 115 ELSE 100

SpecMonthOf(o) ==
    CHOOSE m \in 1..12 : \E y \in 2023..2025 :
        /\ DaysBeforeYear(y) + DaysBeforeMonth(y, m) < o
        /\ o <= DaysBeforeYear(y) + DaysBeforeMonth(y, m) + DaysInMonth(y, m)

\* base * season * weekend of day o, in 1/(400*den): both multipliers are
\* multiples of 5 hundredths
SpecNightly(base, o) == base.num * ((SpecSeason(SpecMonthOf(o)) * SpecWeekend(o)) \div 25)

RECURSIVE SpecTotal(_, _, _)
SpecTotal(base, lo, hi) ==
    IF lo >= hi THEN 0 ELSE SpecNightly(base, lo) + SpecTotal(base, lo + 1, hi)

\* the number of cents nearest to n / d, the even one of two equally near
SpecRound(n, d) ==
    CHOOSE c \in {(n \div d) - 1, n \div d, (n \div d) + 1} :
        \/ 2 * Abs(n - c * d) < d
        \/ 2 * Abs(n - c * d) = d /\ c % 2 = 0

SpecPrice(r) ==
    SpecRound(SpecTotal(r.base, ToOrdinal(fromisoformat(r.check_in)),
                        ToOrdinal(fromisoformat(r.check_out))) * (100 + r.fee),
              400 * r.base.den)

Scenario1 == [base |-> Price(7000, 1), check_in |-> IsoStr(2024, 12, 20),
              check_out |-> IsoStr(2024, 12, 22), fee |-> 10, called |-> TRUE]
Scenario2 == [base |-> Price(7000, 1), check_in |-> IsoStr(2024, 7, 10),
              check_out |-> IsoStr(2024, 7, 11), fee |-> 10, called |-> TRUE]

\* C3: every valid request returns, rounded to 2 decimals, the sum over the
\* nights from check-in up to but excluding check-out of base * season *
\* weekend, times (1 + fee/100); the two literal scenarios give 21252.00 and
\* 6545.00, and a fee of 0 gives the rounded pre-fee total.
C3_PriceFormula ==
    /\ ValidStay(request) => result = Float(SpecPrice(request))
    /\ request = Scenario1 => result = Float(2125200)
    /\ request = Scenario2 => result = Float(654500)
    /\ (ValidStay(request) /\ request.fee = 0) =>
           result = Float(SpecRound(
               SpecTotal(request.base, ToOrdinal(fromisoformat(request.check_in)),
                         ToOrdinal(fromisoformat(request.check_out))),
               4 * request.base.den))

C3_Scenario1Priced == request = Scenario1 /\ result = Float(2125200)

\* what the same stay costs at another base price or fee
PriceOf(base, r, fee) == calculate_price_with_rules(base, r.check_in, r.check_out, fee).ret.cents

BaseLess(b1, b2) == b1.num * b2.den < b2.num * b1.den

\* C4 as stated: with the dates fixed, a strictly larger base price (same
\* fee) and a strictly larger fee (same base price) each give a strictly
\* larger rounded price.
C4_StrictlyMonotone ==
    (ValidStay(request) /\ request.fee >= 0) =>
        /\ \A b \in Bases : BaseLess(request.base, b) =>
               PriceOf(b, request, request.fee) > result.cents
        /\ \A f \in Fees : f > request.fee =>
               PriceOf(request.base, request, f) > result.cents

\* C4 amended: for requests with a positive base price, check-out after
\* check-in and a non-negative fee, a larger base price (same fee) and a
\* larger fee (same base price) never give a smaller rounded price.
C4_Monotone ==
    (ValidStay(request) /\ request.fee >= 0) =>
        /\ Returned
        /\ \A b \in Bases : BaseLess(request.base, b) =>
               PriceOf(b, request, request.fee) >= result.cents
        /\ \A f \in Fees : f > request.fee =>
               PriceOf(request.base, request, f) >= result.cents

\* a larger base price and a larger fee that both round to the same price,
\* and a larger base price that costs more
C4_RoundedTogether ==
    /\ ValidStay(request) /\ request.fee >= 0 /\ Returned
    /\ \E b \in Bases : BaseLess(request.base, b) /\ PriceOf(b, request, request.fee) = result.cents
    /\ \E f \in Fees : f > request.fee /\ PriceOf(request.base, request, f) = result.cents
    /\ \E b \in Bases : BaseLess(request.base, b) /\ PriceOf(b, request, request.fee) > result.cents

\* C10 as stated: every price returned is strictly positive after rounding.
\* (Only requests with a positive base price and a non-negative fee are held
\* against the claim, so that the negative base prices the function lets
\* through do not count.)
C10_AlwaysPositive ==
    (Returned /\ request.base.num > 0 /\ request.fee >= 0) => result.cents > 0

\* C10 amended: every price returned for a base price of at least 0.01 and a
\* non-negative fee is strictly positive after rounding.
C10_PositiveFromOneCent ==
    (Returned /\ request.base.num * 100 >= request.base.den /\ request.fee >= 0) =>
        result.cents > 0

C10_OneCentStay ==
    /\ Returned /\ request.base = Price(10, 1000) /\ request.fee = 0
    /\ Nights(request) = 1 /\ result.cents = 1

(***************************************************************************)
(* Properties of predict_dynamic_price, checked under SpecComparable.      *)
(* The dataset is read here from the file itself, by label, not from the   *)
(* encoded frame.                                                          *)
(***************************************************************************)
Asked == query # NoQuery

SpecEligible ==
    LET OneNight(r) == r.duration = 1
    IN  SelectSeq(csv, OneNight)

SpecType(q) == IF q.houseboat_type = "S" THEN "Standard" ELSE "Luxury"
SpecSeasonLabel(q) == IF q.season = "P" THEN "Peak" ELSE "Off-Season"

SpecKnownLabels(q) ==
    /\ \E i \in 1..Len(SpecEligible) : SpecEligible[i].houseboat_type = SpecType(q)
    /\ \E i \in 1..Len(SpecEligible) : SpecEligible[i].season = SpecSeasonLabel(q)

SpecMatches(q) ==
    LET Same(r) ==
            /\ r.capacity = q.capacity
            /\ r.bedrooms = q.bedrooms
            /\ r.houseboat_type = SpecType(q)
            /\ r.season = SpecSeasonLabel(q)
    IN  SelectSeq(SpecEligible, Same)

\* the k-th smallest entry of a column: fewer than k entries are below it and
\* at least k are not above it
SpecKth(column, k) ==
    CHOOSE v \in Range(column) :
        /\ Cardinality({ i \in 1..Len(column) : column[i] < v }) < k
        /\ Cardinality({ i \in 1..Len(column) : column[i] <= v }) >= k

\* twice the median: the middle entry twice, or the two middle entries
SpecMedian2(column) ==
    SpecKth(column, (Len(column) + 1) \div 2) + SpecKth(column, (Len(column) \div 2) + 1)

\* median * 1.20 for a Peak query, * 0.85 otherwise, in 1/400 rupee
SpecPredicted(column, q) ==
    SpecMedian2(column) * 2 * (IF SpecSeasonLabel(q) = "Peak" THEN 120 ELSE 85)

\* the median of the actual prices, in 1/400 rupee
SpecActual(column) == SpecMedian2(column) * 200

C6_Reconciliation ==
    (Asked /\ SpecMatches(query) # <<>>) =>
        LET predicted == SpecPredicted(BasePrices(SpecMatches(query)), query)
            actual == SpecActual(FinalPrices(SpecMatches(query)))
        IN  /\ outcome.printed
            /\ 5 * Abs(predicted - actual) > actual =>
                   /\ outcome.adjusted
                   /\ outcome.price = Num((predicted + actual) \div 2)
            /\ 5 * Abs(predicted - actual) <= actual =>
                   /\ ~outcome.adjusted
                   /\ outcome.price = Num(predicted)

\* a deviation of exactly 20% of actual, left as predicted
C6_ExactlyTwentyPercent ==
    /\ Asked /\ SpecMatches(query) # <<>>
    /\ LET predicted == SpecPredicted(BasePrices(SpecMatches(query)), query)
           actual == SpecActual(FinalPrices(SpecMatches(query)))
       IN  /\ 5 * Abs(predicted - actual) = actual
           /\ outcome.price = Num(predicted)

\* C7: a query whose type or season label is not among the labels the
\* encoding was built from fails with the unseen-label error before any row
\* is selected, and no price is computed or printed.
C7_UnknownLabelFailsFirst ==
    (Asked /\ ~SpecKnownLabels(query)) =>
        /\ outcome.raised = UnseenLabels
        /\ ~outcome.selected
        /\ ~outcome.printed
        /\ outcome.price = NaN

\* an unknown label in a dataset that has eligible rows
C7_UnknownLabelAsked ==
    /\ Asked /\ ~SpecKnownLabels(query)
    /\ Len(SpecEligible) > 0
    /\ outcome.raised = UnseenLabels

\* C8 as stated: a query with known labels gets a price whenever there is an
\* eligible row; the call fails with an error of its own, not the
\* unknown-category error, exactly when there is no eligible row; no price
\* printed is NaN.
C8_EmptyDatasetError ==
    Asked =>
        /\ (SpecEligible # <<>> /\ SpecKnownLabels(query)) =>
               (outcome.printed /\ ~outcome.price.nan)
        /\ SpecEligible = <<>> <=> (outcome.raised # "" /\ outcome.raised # UnseenLabels)
        /\ outcome.printed => ~outcome.price.nan

\* C8 amended: a query with known labels gets a price whenever there is an
\* eligible row; when there is no eligible row every query fails, with the
\* same unseen-label error as an unknown category; no price printed is NaN.
C8_PriceOrUnseenLabels ==
    Asked =>
        /\ (SpecEligible # <<>> /\ SpecKnownLabels(query)) =>
               (outcome.raised = "" /\ outcome.printed /\ ~outcome.price.nan)
        /\ SpecEligible = <<>> => (outcome.raised = UnseenLabels /\ ~outcome.printed)
        /\ outcome.printed => ~outcome.price.nan

\* a file with rows, none of them eligible
C8_NoEligibleRow ==
    /\ Asked /\ SpecEligible = <<>> /\ csv # <<>>
    /\ outcome.raised = UnseenLabels

\* C9: no call, failing or not, changes the frame or the encoders, and a
\* call with the query of any earlier call ends as that call did.
C9_FrameUnchanged ==
    [][ /\ df' = df
        /\ label_encoders' = label_encoders
        /\ (earlier'.asked /\ earlier'.query = query') => earlier'.outcome = outcome' ]_vars

\* the query of an earlier call asked again and priced
C9_AskedAgain ==
    /\ earlier.asked /\ earlier.query = query
    /\ outcome.printed

====
